---- MODULE Spec2Model ----
(***************************************************************************)
(* Model of sink.py: the Sink class (link store, link resolver, photo      *)
(* synchronisation) driven by main().  One behaviour is a sequence of      *)
(* process runs over one shelf file; the shelf is the only state that      *)
(* survives a run.                                                         *)
(***************************************************************************)
EXTENDS Integers, Sequences, FiniteSets, TLC

(***************************************************************************)
(* Bounds of the model.                                                    *)
(***************************************************************************)
MaxRuns == 2          \* the number of process runs over one shelf file
MaxTime == 1          \* the clock (in days) runs over 0..MaxTime
MaxRetries == 2       \* --retries ranges over 0..MaxRetries
MaxExpiry == 1        \* --expiry ranges over 0..MaxExpiry

PIDs == {"p1", "p2"}                \* Google contact urls
FIDs == {"f1", "f2"}                \* Facebook friend urls
ContactNames == {"ann", "bob"}      \* full names of contacts
Hashes == {"h1", "h2"}              \* md5 digests of pictures
Thresholds == {86, 100}             \* values of --score
MatchLimits == {1, 3}               \* values of --matches
Commands == {"update", "edit", "delete"}

None == "None"                      \* Python's None

(***************************************************************************)
(* Orders used by sorted(): the collation key of a name and the string     *)
(* order of friend urls.                                                   *)
(***************************************************************************)
SortKey(n) == CASE n = "ann" -> 1 [] n = "anne" -> 2 [] n = "bob" -> 3 [] OTHER -> 4

IdOrd(id) == CASE id = "f1" -> 1 [] id = "f2" -> 2 [] id = "p1" -> 1 [] id = "p2" -> 2 [] OTHER -> 0

\* the name Facebook reports for each friend url
FriendName(f) == IF f = "f1" THEN "ann" ELSE "bob"

\* the collections a provider can return at the start of a run
ContactPools ==
    {[p \in {"p1", "p2"} |-> IF p = "p1" THEN "ann" ELSE "bob"],
     [p \in {"p1", "p2"} |-> "ann"],
     [p \in {"p1"} |-> "ann"]}

FriendPools == {[f \in S |-> FriendName(f)] : S \in {{"f1", "f2"}, {"f1"}, {}}}

(***************************************************************************)
(* Python dicts.  links is iterated, so it keeps its insertion order: a    *)
(* sequence of [k, v] items with distinct keys.  checksums and timestamps  *)
(* are only looked up: functions.                                          *)
(***************************************************************************)
Keys(d) == {d[i].k : i \in 1..Len(d)}

HasKey(d, key) == key \in Keys(d)

Get(d, key) == d[CHOOSE i \in 1..Len(d) : d[i].k = key].v

Put(d, key, val) ==
    IF HasKey(d, key)
    THEN [i \in 1..Len(d) |-> IF d[i].k = key THEN [k |-> key, v |-> val] ELSE d[i]]
    ELSE Append(d, [k |-> key, v |-> val])

DelItem(d, key) == SelectSeq(d, LAMBDA e : e.k # key)

AsMap(d) == [key \in Keys(d) |-> Get(d, key)]

DelKey(f, key) == [q \in (DOMAIN f) \ {key} |-> f[q]]

SetKey(f, key, val) == (key :> val) @@ f

EmptyMap == << >>

(***************************************************************************)
(* sorted(links.items(), key=(COLLATOR.getSortKey(contacts[k]), v)).       *)
(***************************************************************************)
\* the key function raises KeyError, or two items tie on the name and the
\* comparison falls through to None < str, which raises TypeError
SortRaises(d, c) ==
    \/ \E i \in 1..Len(d) : d[i].k \notin DOMAIN c
    \/ \E i, j \in 1..Len(d) :
          /\ i # j
          /\ c[d[i].k] = c[d[j].k]
          /\ d[i].v = None
          /\ d[j].v # None

ItemLess(a, b, c) ==
    \/ SortKey(c[a.k]) < SortKey(c[b.k])
    \/ /\ SortKey(c[a.k]) = SortKey(c[b.k])
       /\ a.v # None
       /\ b.v # None
       /\ IdOrd(a.v) < IdOrd(b.v)

\* stable insertion of e into the sorted sequence s
InsertItem(s, e, c) ==
    LET n == Cardinality({i \in 1..Len(s) : ~ItemLess(e, s[i], c)})
    IN  SubSeq(s, 1, n) \o <<e>> \o SubSeq(s, n + 1, Len(s))

RECURSIVE SortedLinks(_, _)
SortedLinks(d, c) ==
    IF d = << >> THEN << >>
    ELSE InsertItem(SortedLinks(SubSeq(d, 1, Len(d) - 1), c), d[Len(d)], c)

(***************************************************************************)
(* fuzzywuzzy: fuzz.UWRatio of a query against a friend's name, and        *)
(* process.extract over the friends dict.                                  *)
(***************************************************************************)
Score(q, n) ==
    IF q = n THEN 100
    ELSE IF {q, n} = {"ann", "anne"} THEN 86
    ELSE 0

\* get_contacts and get_friends return dicts sorted by (collation key of the
\* name, url)
KeyLess(m, a, b) ==
    \/ SortKey(m[a]) < SortKey(m[b])
    \/ SortKey(m[a]) = SortKey(m[b]) /\ IdOrd(a) < IdOrd(b)

RECURSIVE OrderKeys(_, _)
OrderKeys(m, S) ==
    IF S = {} THEN << >>
    ELSE LET first == CHOOSE a \in S : \A b \in S \ {a} : KeyLess(m, a, b)
         IN  <<first>> \o OrderKeys(m, S \ {first})

\* heapq.nlargest keeps the dict order among equal scores
InsertMatch(s, e) ==
    LET n == Cardinality({i \in 1..Len(s) : s[i].s >= e.s})
    IN  SubSeq(s, 1, n) \o <<e>> \o SubSeq(s, n + 1, Len(s))

RECURSIVE RankMatches(_)
RankMatches(ms) ==
    IF ms = << >> THEN << >>
    ELSE InsertMatch(RankMatches(SubSeq(ms, 1, Len(ms) - 1)), ms[Len(ms)])

Min(a, b) == IF a < b THEN a ELSE b

\* process.extract(query, choices, scorer=fuzz.UWRatio, limit=limit): a list of
\* (name, score, url)
Extract(query, choices, limit) ==
    LET order == OrderKeys(choices, DOMAIN choices)
        scored == [i \in 1..Len(order) |->
                     [n |-> choices[order[i]], s |-> Score(query, choices[order[i]]), k |-> order[i]]]
        ranked == RankMatches(scored)
    IN  SubSeq(ranked, 1, Min(limit, Len(ranked)))

VARIABLES
    shelf,          \* the shelf file: [links, checksums, timestamps]
    contacts,       \* self.contacts: contact url -> full name
    friends,        \* self.friends: friend url -> name
    links,          \* self.links
    checksums,      \* self.checksums
    timestamps,     \* self.timestamps
    pc,             \* where the process is; "idle" when none is running
    cmd,            \* args.command
    args,           \* the parsed command line
    unlinks,        \* the local list unlinks of _update_links
    idx,            \* position of the loop the process is in
    target,         \* contact_url of the _get_link call in progress
    name,           \* the local name of _get_link
    link_contacts,  \* the local dict link_contacts of _edit_links
    future,         \* state of the future _update_photos waits for
    pool,           \* the tasks submitted to the ThreadPoolExecutor, by contact
    now,            \* datetime.now(), in days
    runs,           \* the number of runs started so far
    out,            \* the outcome lines _update_photo printed in this run
    prev,           \* the run before this one, where a specification keeps it
    lastOp          \* the operation that produced this state, with its inputs

vars == <<shelf, contacts, friends, links, checksums, timestamps, pc, cmd, args,
          unlinks, idx, target, name, link_contacts, future, pool, now, runs, out,
          prev, lastOp>>

mem == <<links, checksums, timestamps>>

env == <<contacts, friends>>

locals == <<unlinks, idx, target, name, link_contacts, future, pool>>

NA == "n/a"                         \* a call that was not made

\* lastOp: the operation op on the contact p; res is the line it printed,
\* resolved, pic and attach are what the calls it made of get_user_id,
\* get_profile_picture and update_photo (or delete_photo) returned, at is
\* the clock it read, pre the three maps before it and input what the user
\* typed at the prompt
NoOp ==
    [op |-> "none", p |-> None, res |-> None, resolved |-> NA, pic |-> NA,
     attach |-> << >>, at |-> 0, pre |-> None, input |-> NA]

Snapshot == [l |-> AsMap(links), c |-> checksums, t |-> timestamps]

ArgSets ==
    [update_ignored : BOOLEAN, auto_only : BOOLEAN, score_threshold : Thresholds,
     match_limit : MatchLimits, retries : 0..MaxRetries, expiry : 0..MaxExpiry,
     delete_links : BOOLEAN]

\* argparse: the options a subcommand does not take keep one value; those
\* that only _update_photos reads are drawn where it is entered
ArgsOf(command) ==
    {a \in ArgSets :
        /\ a.expiry = 0
        /\ command = "update" => a.retries = 0
        /\ command # "update" => ~a.update_ignored /\ ~a.auto_only
        /\ command # "delete" => ~a.delete_links
        /\ command = "edit" => a.retries = 0
        /\ command = "delete" => a.score_threshold = 100 /\ a.match_limit = 1}

NoArgs ==
    [update_ignored |-> FALSE, auto_only |-> FALSE, score_threshold |-> 100,
     match_limit |-> 1, retries |-> 0, expiry |-> 0, delete_links |-> FALSE]

\* the command lines of Spec: the linking options keep one value
SyncArgs(command) ==
    {a \in ArgsOf(command) :
        /\ ~a.update_ignored
        /\ command = "update" => a.auto_only
        /\ a.score_threshold = 100
        /\ a.match_limit = IF command = "delete" THEN 1 ELSE 3
        /\ command = "delete" => a.retries = 1}

NoRun ==
    [valid |-> FALSE, contacts |-> EmptyMap, friends |-> EmptyMap, args |-> NoArgs,
     links |-> EmptyMap, at |-> 0, complete |-> FALSE]

Init ==
    /\ shelf = [links |-> << >>, checksums |-> EmptyMap, timestamps |-> EmptyMap]
    /\ contacts = EmptyMap
    /\ friends = EmptyMap
    /\ links = << >>
    /\ checksums = EmptyMap
    /\ timestamps = EmptyMap
    /\ pc = "idle"
    /\ cmd = "none"
    /\ args = NoArgs
    /\ unlinks = << >>
    /\ idx = 0
    /\ target = None
    /\ name = None
    /\ link_contacts = EmptyMap
    /\ future = "none"
    /\ pool = EmptyMap
    /\ now = 0
    /\ runs = 0
    /\ out = << >>
    /\ prev = NoRun
    /\ lastOp = NoOp

(***************************************************************************)
(* main() up to the end of Sink.__init__: the three maps are loaded from   *)
(* the shelf, the contacts are fetched, links is sorted by the contacts'   *)
(* names, then the friends are fetched.                                    *)
(***************************************************************************)
SinkInit(command, a, c, f) ==
    /\ pc = "idle"
    /\ runs < MaxRuns
    /\ runs' = runs + 1
    /\ cmd' = command
    /\ args' = a
    /\ contacts' = c
    /\ checksums' = shelf.checksums
    /\ timestamps' = shelf.timestamps
    /\ out' = << >>
    /\ lastOp' = [NoOp EXCEPT !.op = "init"]
    /\ IF SortRaises(shelf.links, c)
       THEN /\ links' = shelf.links
            /\ friends' = EmptyMap
            /\ pc' = "crashed"
       ELSE /\ links' = SortedLinks(shelf.links, c)
            /\ friends' = f
            /\ pc' = "clean"
    /\ UNCHANGED <<shelf, locals, now, prev>>

(***************************************************************************)
(* _clean_links                                                            *)
(***************************************************************************)
\* a variant of CleanItem that leaves the timestamp of a removed link
CleanItem_KeepsTimestamp(st, key) ==
    IF key \notin DOMAIN contacts
       \/ (Get(st.l, key) # None /\ Get(st.l, key) \notin DOMAIN friends)
    THEN [l |-> DelItem(st.l, key),
          c |-> IF key \in DOMAIN st.c THEN DelKey(st.c, key) ELSE st.c,
          t |-> st.t]
    ELSE st

CleanItem(st, key) ==
    IF key \notin DOMAIN contacts
       \/ (Get(st.l, key) # None /\ Get(st.l, key) \notin DOMAIN friends)
    THEN [l |-> DelItem(st.l, key),
          c |-> IF key \in DOMAIN st.c THEN DelKey(st.c, key) ELSE st.c,
          t |-> IF key \in DOMAIN st.t THEN DelKey(st.t, key) ELSE st.t]
    ELSE st

RECURSIVE CleanLoop(_, _)
CleanLoop(st, keys) ==
    IF keys = << >> THEN st
    ELSE CleanLoop(CleanItem(st, Head(keys)), Tail(keys))

KeyList(d) == [i \in 1..Len(d) |-> d[i].k]

\* a variant of the loop that iterates over the dict it deletes from and so
\* passes over the key that follows a removed one
RECURSIVE CleanLoopSkipping(_, _)
CleanLoopSkipping(st, keys) ==
    IF keys = << >> THEN st
    ELSE IF CleanItem(st, Head(keys)) # st /\ Len(keys) > 1
    THEN CleanLoopSkipping(CleanItem(st, Head(keys)), Tail(Tail(keys)))
    ELSE CleanLoopSkipping(CleanItem(st, Head(keys)), Tail(keys))

Cleaned_SkipsNext ==
    CleanLoopSkipping([l |-> links, c |-> checksums, t |-> timestamps], KeyList(links))

Cleaned == CleanLoop([l |-> links, c |-> checksums, t |-> timestamps], KeyList(links))

\* the dict comprehension of _edit_links: a later link of the same name wins
LinkContacts(d) ==
    [n \in {contacts[d[i].k] : i \in 1..Len(d)} |->
        d[CHOOSE i \in 1..Len(d) :
            /\ contacts[d[i].k] = n
            /\ \A j \in 1..Len(d) : contacts[d[j].k] = n => j <= i].k]

clean_links ==
    /\ pc = "clean"
    /\ links' = Cleaned.l
    /\ checksums' = Cleaned.c
    /\ timestamps' = Cleaned.t
    /\ lastOp' = [NoOp EXCEPT !.op = "clean", !.pre = Snapshot]
    /\ CASE cmd = "update" ->
              /\ pc' = "auto"
              /\ idx' = 1
              /\ unlinks' = << >>
              /\ UNCHANGED link_contacts
         [] cmd = "edit" ->
              /\ pc' = "edit"
              /\ link_contacts' = LinkContacts(Cleaned.l)
              /\ UNCHANGED <<idx, unlinks>>
         [] OTHER ->
              /\ pc' = "delete_photos"
              /\ idx' = 1
              /\ UNCHANGED <<unlinks, link_contacts>>
    /\ UNCHANGED <<shelf, env, cmd, args, target, name, future, pool, now, runs, out, prev>>

(***************************************************************************)
(* The process ends, normally or with a traceback; only the shelf remains. *)
(***************************************************************************)
ExitWith(record) ==
    /\ pc \in {"done", "crashed"}
    /\ pc' = "idle"
    /\ contacts' = EmptyMap
    /\ friends' = EmptyMap
    /\ links' = << >>
    /\ checksums' = EmptyMap
    /\ timestamps' = EmptyMap
    /\ unlinks' = << >>
    /\ idx' = 0
    /\ target' = None
    /\ name' = None
    /\ link_contacts' = EmptyMap
    /\ future' = "none"
    /\ pool' = EmptyMap
    /\ cmd' = "none"
    /\ args' = NoArgs
    /\ out' = << >>
    /\ prev' = record
    /\ lastOp' = [NoOp EXCEPT !.op = "exit"]
    /\ UNCHANGED <<shelf, now, runs>>

Exit == ExitWith(NoRun)

\* the same, keeping what the run was given and whether its sync went
\* through all of links
ExitKeep ==
    ExitWith([valid |-> TRUE, contacts |-> contacts, friends |-> friends,
              args |-> args, links |-> AsMap(links), at |-> now,
              complete |-> pc = "done" /\ lastOp.op = "sync_end"])

\* time passes between runs: the clock counts days, a run takes less than one
Tick ==
    /\ pc = "idle"
    /\ now < MaxTime
    /\ now' = now + 1
    /\ UNCHANGED <<shelf, env, mem, pc, cmd, args, locals, runs, out, prev, lastOp>>

(***************************************************************************)
(* _add_link and _save_links                                               *)
(***************************************************************************)
get_matches(query, limit) == Extract(query, friends, limit)

\* _save_links sorts before it writes; when sorted() raises nothing is written
SaveRaises(d) == SortRaises(d, contacts)

save_links(d) == SortedLinks(d, contacts)

\* a variant of _add_link that starts the dict afresh with the one item
add_link_Forgets(key, val) ==
    LET d == << [k |-> key, v |-> val] >>
    IN  /\ links' = d
        /\ shelf' = [shelf EXCEPT !.links = d]

\* links and shelf after _add_link(key, val)
add_link(key, val) ==
    LET d == Put(links, key, val)
    IN  IF SaveRaises(d)
        THEN /\ links' = d
             /\ UNCHANGED shelf
        ELSE /\ links' = save_links(d)
             /\ shelf' = [shelf EXCEPT !.links = save_links(d)]

\* where the caller of _get_link goes on
AfterGetLink ==
    IF cmd = "update"
    THEN IF idx < Len(unlinks)
         THEN /\ pc' = "get_link"
              /\ idx' = idx + 1
              /\ target' = unlinks[idx + 1]
              /\ name' = contacts[unlinks[idx + 1]]
         ELSE /\ pc' = "update_photos_begin"
              /\ idx' = 1
              /\ target' = None
              /\ name' = None
    ELSE /\ pc' = "edit"
         /\ target' = None
         /\ name' = None
         /\ UNCHANGED idx

Crash ==
    /\ pc' = "crashed"
    /\ UNCHANGED <<idx, target, name>>

(***************************************************************************)
(* _update_links: the loop over the contacts, then the loop over unlinks.  *)
(***************************************************************************)
ContactOrder == OrderKeys(contacts, DOMAIN contacts)

\* a variant of the test of the first loop that takes an ignored contact
\* whatever --update-ignored
Considered_IgnoredToo(key) ==
    \/ ~HasKey(links, key)
    \/ Get(links, key) = None

Considered(key) ==
    \/ ~HasKey(links, key)
    \/ args.update_ignored /\ Get(links, key) = None

\* a variant of the auto-link test that takes any score from the threshold up
AutoMatch_AtLeast(matches) ==
    /\ matches # << >>
    /\ matches[1].s >= args.score_threshold

AutoMatch(matches) ==
    /\ matches # << >>
    /\ matches[1].s = args.score_threshold

update_links ==
    /\ pc = "auto"
    /\ idx <= Len(ContactOrder)
    /\ LET key == ContactOrder[idx]
           matches == get_matches(contacts[key], args.match_limit)
       IN  IF ~Considered(key)
           THEN /\ lastOp' = [NoOp EXCEPT !.op = "kept", !.p = key]
                /\ idx' = idx + 1
                /\ UNCHANGED <<links, shelf, unlinks, pc>>
           ELSE IF AutoMatch(matches)
           THEN /\ add_link(key, matches[1].k)
                /\ lastOp' = [NoOp EXCEPT !.op = "auto_link", !.p = key]
                /\ IF SaveRaises(Put(links, key, matches[1].k))
                   THEN pc' = "crashed" /\ UNCHANGED idx
                   ELSE idx' = idx + 1 /\ UNCHANGED pc
                /\ UNCHANGED unlinks
           ELSE /\ unlinks' = Append(unlinks, key)
                /\ lastOp' = [NoOp EXCEPT !.op = "queued", !.p = key]
                /\ idx' = idx + 1
                /\ UNCHANGED <<links, shelf, pc>>
    /\ UNCHANGED <<env, checksums, timestamps, cmd, args, target, name,
                   link_contacts, future, pool, now, runs, out, prev>>

\* a variant of the end of the first loop that prompts whatever --auto-only
update_links_end_IgnoresAutoOnly ==
    /\ pc = "auto"
    /\ idx > Len(ContactOrder)
    /\ IF unlinks # << >>
       THEN /\ pc' = "get_link"
            /\ target' = unlinks[1]
            /\ name' = contacts[unlinks[1]]
       ELSE /\ pc' = "update_photos_begin"
            /\ UNCHANGED <<target, name>>
    /\ idx' = 1
    /\ lastOp' = [NoOp EXCEPT !.op = "links_done"]
    /\ UNCHANGED <<shelf, env, mem, cmd, args, unlinks, link_contacts, future, pool, now, runs, out, prev>>

update_links_end ==
    /\ pc = "auto"
    /\ idx > Len(ContactOrder)
    /\ IF ~args.auto_only /\ unlinks # << >>
       THEN /\ pc' = "get_link"
            /\ target' = unlinks[1]
            /\ name' = contacts[unlinks[1]]
       ELSE /\ pc' = "update_photos_begin"
            /\ UNCHANGED <<target, name>>
    /\ idx' = 1
    /\ lastOp' = [NoOp EXCEPT !.op = "links_done"]
    /\ UNCHANGED <<shelf, env, mem, cmd, args, unlinks, link_contacts, future, pool, now, runs, out, prev>>

(***************************************************************************)
(* _get_link: the top of the outer loop, and the prompt.  The for loop     *)
(* that prints the matches rebinds name, but name is assigned again        *)
(* before it is read.                                                      *)
(***************************************************************************)
get_link ==
    /\ pc = "get_link"
    /\ LET matches == get_matches(name, args.match_limit)
       IN  IF cmd = "update" /\ AutoMatch(matches)
           THEN /\ add_link(target, matches[1].k)
                /\ lastOp' = [NoOp EXCEPT !.op = "auto_link", !.p = target]
                /\ IF SaveRaises(Put(links, target, matches[1].k))
                   THEN Crash
                   ELSE AfterGetLink
           ELSE /\ pc' = "prompt"
                /\ lastOp' = [NoOp EXCEPT !.op = "present", !.p = target]
                /\ UNCHANGED <<links, shelf, idx, target, name>>
    /\ UNCHANGED <<env, checksums, timestamps, cmd, args, unlinks,
                   link_contacts, future, pool, now, runs, out, prev>>

Digits == {"0", "1", "2", "3"}

Texts == {"anne"}

ToInt(command) == CASE command = "0" -> 0 [] command = "1" -> 1 [] command = "2" -> 2 [] OTHER -> 3

\* the inner loop leaves on this condition
Accepted(command) ==
    \/ command \notin Digits
    \/ ToInt(command) > 0 /\ ToInt(command) <= args.match_limit

prompt(command) ==
    /\ pc = "prompt"
    /\ LET matches == get_matches(name, args.match_limit)
       IN  IF ~Accepted(command)
           THEN /\ lastOp' = [NoOp EXCEPT !.op = "reask", !.p = target, !.input = command]
                /\ UNCHANGED <<links, shelf, pc, idx, target, name>>
           ELSE IF command = ""
           THEN /\ add_link(target, None)
                /\ lastOp' = [NoOp EXCEPT !.op = "ignore", !.p = target, !.input = command]
                /\ IF SaveRaises(Put(links, target, None)) THEN Crash ELSE AfterGetLink
           ELSE IF command \in Digits
           THEN IF ToInt(command) > Len(matches)
                THEN /\ lastOp' = [NoOp EXCEPT !.op = "index_error", !.p = target, !.input = command]
                     /\ Crash
                     /\ UNCHANGED <<links, shelf>>
                ELSE /\ add_link(target, matches[ToInt(command)].k)
                     /\ lastOp' = [NoOp EXCEPT !.op = "select", !.p = target, !.input = command]
                     /\ IF SaveRaises(Put(links, target, matches[ToInt(command)].k))
                        THEN Crash
                        ELSE AfterGetLink
           ELSE /\ name' = command
                /\ pc' = "get_link"
                /\ lastOp' = [NoOp EXCEPT !.op = "search", !.p = target, !.input = command]
                /\ UNCHANGED <<links, shelf, idx, target>>
    /\ UNCHANGED <<env, checksums, timestamps, cmd, args, unlinks,
                   link_contacts, future, pool, now, runs, out, prev>>

(***************************************************************************)
(* _edit_links: the name prompt.                                           *)
(***************************************************************************)
edit_links(input) ==
    /\ pc = "edit"
    /\ IF input = ""
       THEN /\ pc' = "done"
            /\ lastOp' = [NoOp EXCEPT !.op = "edit_end"]
            /\ UNCHANGED <<target, name>>
       ELSE IF input \notin DOMAIN link_contacts
       THEN /\ lastOp' = [NoOp EXCEPT !.op = "invalid_name"]
            /\ UNCHANGED <<pc, target, name>>
       ELSE /\ pc' = "get_link"
            /\ target' = link_contacts[input]
            /\ name' = contacts[link_contacts[input]]
            /\ lastOp' = [NoOp EXCEPT !.op = "edit_name", !.p = link_contacts[input]]
    /\ UNCHANGED <<shelf, env, mem, cmd, args, unlinks, idx, link_contacts,
                   future, pool, now, runs, out, prev>>

(***************************************************************************)
(* _retry: results[i] says whether the i-th call of func returns (TRUE)    *)
(* or raises (FALSE).                                                      *)
(***************************************************************************)
RECURSIVE RetryLoop(_, _, _)
RetryLoop(i, results, retries) ==
    IF i > retries THEN [ok |-> FALSE, calls |-> i - 1]
    ELSE IF results[i] THEN [ok |-> TRUE, calls |-> i]
    ELSE RetryLoop(i + 1, results, retries)

\* a variant of _retry that returns True after the loop
retry_ReturnsTrue(results, retries) == [RetryLoop(1, results, retries) EXCEPT !.ok = TRUE]

\* a variant of _retry that goes on calling after a success
retry_CallsOn(results, retries) ==
    [ok |-> \E i \in 1..retries : results[i], calls |-> retries]

retry(results, retries) == RetryLoop(1, results, retries)

(***************************************************************************)
(* _update_photos and _update_photo.  The main thread submits one task     *)
(* and waits for its result before it submits the next.                    *)
(***************************************************************************)
\* a variant of _should_update that compares with >=
should_update_AtExpiry(key, expiry) ==
    IF key \notin DOMAIN timestamps THEN TRUE
    ELSE now >= timestamps[key] + expiry

should_update(key, expiry) ==
    IF key \notin DOMAIN timestamps THEN TRUE
    ELSE now > timestamps[key] + expiry

\* a variant of the checksum test that never finds the stored checksum
same_checksum_Never(key, checksum) == FALSE

same_checksum(key, checksum) == key \in DOMAIN checksums /\ checksums[key] = checksum

\* a variant of _set_checksum that stores nothing
set_checksum_Dropped(sums, key, checksum) == sums

set_checksum(sums, key, checksum) == SetKey(sums, key, checksum)

set_timestamp(stamps, key) == SetKey(stamps, key, now)

\* what _update_photo does for the item (key, val) of links when get_user_id
\* resolves (resolved), get_profile_picture returns pic and the calls of
\* update_photo end as results says
UpdatePhotoResult(key, val, resolved, pic, results) ==
    LET quiet == [res |-> None, raised |-> FALSE, resolved |-> NA, pic |-> NA,
                  attach |-> << >>, sums |-> checksums, stamps |-> timestamps,
                  saved |-> {}]
        r == retry(results, args.retries)
        tried == [quiet EXCEPT !.resolved = IF resolved THEN "found" ELSE "not found"]
        fetched == [tried EXCEPT !.pic = pic]
        stamped == [fetched EXCEPT !.stamps = set_timestamp(timestamps, key),
                                   !.saved = {"timestamps"}]
    IN  IF val = None THEN quiet
        ELSE IF ~should_update(key, args.expiry) THEN [quiet EXCEPT !.res = "SKIPPED"]
        ELSE IF ~resolved THEN [tried EXCEPT !.raised = TRUE]
        ELSE IF pic = None THEN [fetched EXCEPT !.res = "NO PICTURE"]
        ELSE IF same_checksum(key, pic) THEN [stamped EXCEPT !.res = "UNCHANGED"]
        ELSE IF r.ok
        THEN [stamped EXCEPT !.res = "UPDATED",
                             !.attach = SubSeq(results, 1, r.calls),
                             !.sums = set_checksum(checksums, key, pic),
                             !.saved = {"checksums", "timestamps"}]
        ELSE [stamped EXCEPT !.res = "FAILED",
                             !.attach = SubSeq(results, 1, r.calls)]

\* _update_photos is entered: --retries and --expiry are read here first,
\* so the command line's values for them are drawn here
update_photos_begin(retries, expiry) ==
    /\ pc = "update_photos_begin"
    /\ args' = [args EXCEPT !.retries = retries, !.expiry = expiry]
    /\ pc' = "update_photos"
    /\ idx' = 1
    /\ lastOp' = [NoOp EXCEPT !.op = "sync_begin"]
    /\ UNCHANGED <<shelf, env, mem, cmd, unlinks, target, name, link_contacts,
                   future, pool, now, runs, out, prev>>

submit ==
    /\ pc = "update_photos"
    /\ idx <= Len(links)
    /\ future = "none"
    /\ future' = "running"
    /\ lastOp' = [NoOp EXCEPT !.op = "submit", !.p = links[idx].k]
    /\ UNCHANGED <<shelf, env, mem, pc, cmd, args, unlinks, idx, target, name,
                   link_contacts, pool, now, runs, out, prev>>

update_photo(resolved, pic, results) ==
    /\ pc = "update_photos"
    /\ future = "running"
    /\ LET key == links[idx].k
           u == UpdatePhotoResult(key, links[idx].v, resolved, pic, results)
       IN  /\ checksums' = u.sums
           /\ timestamps' = u.stamps
           /\ shelf' = [shelf EXCEPT
                  !.checksums = IF "checksums" \in u.saved THEN u.sums ELSE @,
                  !.timestamps = IF "timestamps" \in u.saved THEN u.stamps ELSE @]
           /\ out' = IF u.res = None THEN out ELSE Append(out, [p |-> key, line |-> u.res])
           /\ future' = IF u.raised THEN "raised" ELSE "returned"
           /\ lastOp' = [NoOp EXCEPT
                  !.op = "sync", !.p = key, !.res = u.res, !.resolved = u.resolved,
                  !.pic = u.pic, !.attach = u.attach, !.at = now, !.pre = Snapshot]
    /\ UNCHANGED <<env, links, pc, cmd, args, unlinks, idx, target, name,
                   link_contacts, pool, now, runs, prev>>

\* a variant of the loop of _update_photos without the break: StopIteration
\* is printed and the next item is submitted
future_result_Continues ==
    /\ pc = "update_photos"
    /\ future \in {"returned", "raised"}
    /\ future' = "none"
    /\ idx' = idx + 1
    /\ pc' = IF idx = Len(links) THEN "done" ELSE pc
    /\ out' = IF future = "raised"
              THEN Append(out, [p |-> links[idx].k, line |-> "RATE LIMITED"])
              ELSE out
    /\ lastOp' = [NoOp EXCEPT
           !.op = IF future = "raised" THEN "fatal"
                  ELSE IF idx = Len(links) THEN "sync_end" ELSE "result",
           !.p = links[idx].k]
    /\ UNCHANGED <<shelf, env, mem, cmd, args, unlinks, target, name,
                   link_contacts, pool, now, runs, prev>>

\* future.result(): the break on StopIteration, the next item, or the end of
\* the loop and pool.shutdown()
future_result ==
    /\ pc = "update_photos"
    /\ future \in {"returned", "raised"}
    /\ future' = "none"
    /\ IF future = "raised"
       THEN /\ pc' = "done"
            /\ out' = Append(out, [p |-> links[idx].k, line |-> "RATE LIMITED"])
            /\ lastOp' = [NoOp EXCEPT !.op = "fatal", !.p = links[idx].k]
            /\ UNCHANGED idx
       ELSE /\ idx' = idx + 1
            /\ pc' = IF idx = Len(links) THEN "done" ELSE pc
            /\ lastOp' = [NoOp EXCEPT
                   !.op = IF idx = Len(links) THEN "sync_end" ELSE "result",
                   !.p = links[idx].k]
            /\ UNCHANGED out
    /\ UNCHANGED <<shelf, env, mem, cmd, args, unlinks, target, name,
                   link_contacts, pool, now, runs, prev>>

\* links is empty: the loop body never runs
update_photos_end ==
    /\ pc = "update_photos"
    /\ links = << >>
    /\ pc' = "done"
    /\ lastOp' = [NoOp EXCEPT !.op = "sync_end"]
    /\ UNCHANGED <<shelf, env, mem, cmd, args, locals, now, runs, out, prev>>

(***************************************************************************)
(* _update_photos and _update_photo statement by statement: the tasks in   *)
(* the ThreadPoolExecutor run as threads of their own, and the main thread *)
(* is at the top of the for loop ("update_photos"), in future.result()     *)
(* ("result") or in pool.shutdown() ("shutdown").                          *)
(***************************************************************************)
NoStamp == 0 - 1

\* a task: where its thread is, the checksum it has to store and the
\* timestamp it stored
NewTask == [st |-> "start", sum |-> None, stamp |-> NoStamp]

TaskOver(key) == pool[key].st \in {"returned", "raised"}

\* a variant of the loop body that does not wait for the task's result (as
\* _update_websites submits)
pool_submit_NoWait ==
    /\ pc = "update_photos"
    /\ idx <= Len(links)
    /\ pool' = (links[idx].k :> NewTask) @@ pool
    /\ idx' = idx + 1
    /\ lastOp' = [NoOp EXCEPT !.op = "pool_submit", !.p = links[idx].k]
    /\ UNCHANGED <<shelf, env, mem, pc, cmd, args, unlinks, target, name,
                   link_contacts, future, now, runs, out, prev>>

\* pool.submit(...), then the main thread enters future.result()
pool_submit ==
    /\ pc = "update_photos"
    /\ idx <= Len(links)
    /\ pool' = (links[idx].k :> NewTask) @@ pool
    /\ pc' = "result"
    /\ lastOp' = [NoOp EXCEPT !.op = "pool_submit", !.p = links[idx].k]
    /\ UNCHANGED <<shelf, env, mem, cmd, args, unlinks, idx, target, name,
                   link_contacts, future, now, runs, out, prev>>

\* the task's thread runs _update_photo up to its print: the reads of
\* links, timestamps and checksums, the calls of the providers and _retry
task_run(key, resolved, pic, results) ==
    /\ key \in DOMAIN pool
    /\ pool[key].st = "start"
    /\ LET u == UpdatePhotoResult(key, Get(links, key), resolved, pic, results)
       IN  /\ pool' = [pool EXCEPT ![key] =
                  [st |-> IF u.raised THEN "raised"
                          ELSE IF u.res = "UPDATED" THEN "set_checksum"
                          ELSE IF u.res \in {"UNCHANGED", "FAILED"} THEN "set_timestamp"
                          ELSE "returned",
                   sum |-> IF u.res = "UPDATED" THEN pic ELSE None,
                   stamp |-> NoStamp]]
           /\ out' = IF u.res = None THEN out ELSE Append(out, [p |-> key, line |-> u.res])
           /\ lastOp' = [NoOp EXCEPT
                  !.op = "task_run", !.p = key, !.res = u.res, !.resolved = u.resolved,
                  !.pic = u.pic, !.attach = u.attach, !.at = now]
    /\ UNCHANGED <<shelf, env, mem, pc, cmd, args, unlinks, idx, target, name,
                   link_contacts, future, now, runs, prev>>

\* _set_checksum, first statement: self.checksums[contact_url] = checksum
task_set_checksum(key) ==
    /\ key \in DOMAIN pool
    /\ pool[key].st = "set_checksum"
    /\ checksums' = set_checksum(checksums, key, pool[key].sum)
    /\ pool' = [pool EXCEPT ![key].st = "save_checksums"]
    /\ lastOp' = [NoOp EXCEPT !.op = "task_set_checksum", !.p = key]
    /\ UNCHANGED <<shelf, env, links, timestamps, pc, cmd, args, unlinks, idx, target,
                   name, link_contacts, future, now, runs, out, prev>>

\* _set_checksum, second statement: self.shelf[CHECKSUMS] = self.checksums
task_save_checksums(key) ==
    /\ key \in DOMAIN pool
    /\ pool[key].st = "save_checksums"
    /\ shelf' = [shelf EXCEPT !.checksums = checksums]
    /\ pool' = [pool EXCEPT ![key].st = "set_timestamp"]
    /\ lastOp' = [NoOp EXCEPT !.op = "task_save_checksums", !.p = key]
    /\ UNCHANGED <<env, mem, pc, cmd, args, unlinks, idx, target, name,
                   link_contacts, future, now, runs, out, prev>>

\* _set_timestamp, first statement: self.timestamps[contact_url] = now()
task_set_timestamp(key) ==
    /\ key \in DOMAIN pool
    /\ pool[key].st = "set_timestamp"
    /\ timestamps' = set_timestamp(timestamps, key)
    /\ pool' = [pool EXCEPT ![key].st = "save_timestamps", ![key].stamp = now]
    /\ lastOp' = [NoOp EXCEPT !.op = "task_set_timestamp", !.p = key, !.at = now]
    /\ UNCHANGED <<shelf, env, links, checksums, pc, cmd, args, unlinks, idx, target,
                   name, link_contacts, future, now, runs, out, prev>>

\* _set_timestamp, second statement: self.shelf[TIMESTAMPS] = self.timestamps
task_save_timestamps(key) ==
    /\ key \in DOMAIN pool
    /\ pool[key].st = "save_timestamps"
    /\ shelf' = [shelf EXCEPT !.timestamps = timestamps]
    /\ pool' = [pool EXCEPT ![key].st = "returned"]
    /\ lastOp' = [NoOp EXCEPT !.op = "task_save_timestamps", !.p = key]
    /\ UNCHANGED <<env, mem, pc, cmd, args, unlinks, idx, target, name,
                   link_contacts, future, now, runs, out, prev>>

\* future.result() returns or raises: the next item, the end of the loop,
\* or the break on StopIteration
pool_result ==
    /\ pc = "result"
    /\ TaskOver(links[idx].k)
    /\ IF pool[links[idx].k].st = "raised"
       THEN /\ pc' = "shutdown"
            /\ out' = Append(out, [p |-> links[idx].k, line |-> "RATE LIMITED"])
            /\ lastOp' = [NoOp EXCEPT !.op = "pool_fatal", !.p = links[idx].k]
            /\ UNCHANGED idx
       ELSE /\ pc' = "update_photos"
            /\ idx' = idx + 1
            /\ lastOp' = [NoOp EXCEPT !.op = "pool_result", !.p = links[idx].k]
            /\ UNCHANGED out
    /\ UNCHANGED <<shelf, env, mem, cmd, args, unlinks, target, name,
                   link_contacts, future, pool, now, runs, prev>>

\* the for loop is over
pool_loop_end ==
    /\ pc = "update_photos"
    /\ idx > Len(links)
    /\ pc' = "shutdown"
    /\ lastOp' = [NoOp EXCEPT !.op = "pool_loop_end"]
    /\ UNCHANGED <<shelf, env, mem, cmd, args, locals, now, runs, out, prev>>

\* pool.shutdown() returns when every task is over
pool_shutdown ==
    /\ pc = "shutdown"
    /\ \A key \in DOMAIN pool : TaskOver(key)
    /\ pc' = "done"
    /\ lastOp' = [NoOp EXCEPT !.op = "pool_shutdown"]
    /\ UNCHANGED <<shelf, env, mem, cmd, args, locals, now, runs, out, prev>>

(***************************************************************************)
(* _delete_photos and _delete_links.  GoogleContacts.delete_photo reads    *)
(* the undefined name media, so every call of it raises NameError.         *)
(***************************************************************************)
delete_photo_results == [i \in 1..args.retries |-> FALSE]

delete_photos ==
    /\ pc = "delete_photos"
    /\ idx <= Len(links)
    /\ idx' = idx + 1
    /\ lastOp' = [NoOp EXCEPT
           !.op = "delete_photo", !.p = links[idx].k,
           !.res = IF retry(delete_photo_results, args.retries).ok
                   THEN "SUCCESS" ELSE "FAILURE",
           !.attach = SubSeq(delete_photo_results, 1,
                             retry(delete_photo_results, args.retries).calls)]
    /\ UNCHANGED <<shelf, env, mem, pc, cmd, args, unlinks, target, name,
                   link_contacts, future, pool, now, runs, out, prev>>

delete_photos_end ==
    /\ pc = "delete_photos"
    /\ idx > Len(links)
    /\ pc' = IF args.delete_links THEN "delete_links" ELSE "done"
    /\ lastOp' = [NoOp EXCEPT !.op = "photos_deleted"]
    /\ UNCHANGED <<shelf, env, mem, cmd, args, locals, now, runs, out, prev>>

delete_links ==
    /\ pc = "delete_links"
    /\ links' = save_links(<< >>)
    /\ shelf' = [shelf EXCEPT !.links = save_links(<< >>)]
    /\ pc' = "done"
    /\ lastOp' = [NoOp EXCEPT !.op = "delete_links"]
    /\ UNCHANGED <<env, checksums, timestamps, cmd, args, locals, now, runs, out, prev>>

(***************************************************************************)
(* The specification.                                                      *)
(***************************************************************************)
\* the pool thread runs the task; the providers answer as they like
enter_update_photos ==
    \E retries \in 0..MaxRetries, expiry \in 0..MaxExpiry :
       update_photos_begin(retries, expiry)

worker ==
    \E resolved \in BOOLEAN, pic \in Hashes \cup {None} :
       \E results \in [1..args.retries -> BOOLEAN] : update_photo(resolved, pic, results)

main ==
    \E command \in Commands, c \in ContactPools, f \in FriendPools :
       \E a \in SyncArgs(command) : SinkInit(command, a, c, f)

Next ==
    \/ main
    \/ clean_links
    \/ update_links
    \/ update_links_end
    \/ get_link
    \/ \E command \in Digits \cup Texts \cup {""} : prompt(command)
    \/ \E input \in ContactNames \cup {""} : edit_links(input)
    \/ enter_update_photos
    \/ submit
    \/ worker
    \/ future_result
    \/ update_photos_end
    \/ delete_photos
    \/ delete_photos_end
    \/ delete_links
    \/ Exit
    \/ Tick

Spec == Init /\ [][Next]_vars

\* update run again on the same command line and the same collections
mainRepeat ==
    IF prev.valid
    THEN SinkInit("update", [prev.args EXCEPT !.retries = 0, !.expiry = 0],
                  prev.contacts, prev.friends)
    ELSE \E c \in ContactPools, f \in FriendPools :
            \E a \in SyncArgs("update") : SinkInit("update", a, c, f)

NextRepeat ==
    \/ mainRepeat
    \/ clean_links
    \/ update_links
    \/ update_links_end
    \/ enter_update_photos
    \/ submit
    \/ worker
    \/ future_result
    \/ update_photos_end
    \/ ExitKeep
    \/ Tick

SpecRepeat == Init /\ [][NextRepeat]_vars

\* the link resolver on every command line: all of the linking options, with
\* a Facebook that resolves every friend and has one picture or none, and a
\* Google that takes every photo at the first attempt
mainLink ==
    \E command \in Commands, c \in ContactPools, f \in FriendPools :
       \E a \in ArgsOf(command) : SinkInit(command, a, c, f)

enterLink == update_photos_begin(1, 0)

workerLink == \E pic \in {"h1", None} : update_photo(TRUE, pic, <<TRUE>>)

NextLink ==
    \/ mainLink
    \/ clean_links
    \/ update_links
    \/ update_links_end
    \/ get_link
    \/ \E command \in Digits \cup Texts \cup {""} : prompt(command)
    \/ \E input \in ContactNames \cup {""} : edit_links(input)
    \/ enterLink
    \/ submit
    \/ workerLink
    \/ future_result
    \/ update_photos_end
    \/ delete_photos
    \/ delete_photos_end
    \/ delete_links
    \/ Exit

SpecLink == Init /\ [][NextLink]_vars

\* update with the sync taken statement by statement, the tasks' threads
\* scheduled in any order
mainWorkers ==
    \E c \in ContactPools, f \in FriendPools :
       \E a \in SyncArgs("update") : SinkInit("update", a, c, f)

task ==
    \E key \in PIDs :
       \/ \E resolved \in BOOLEAN, pic \in Hashes \cup {None} :
             \E results \in [1..args.retries -> BOOLEAN] : task_run(key, resolved, pic, results)
       \/ task_set_checksum(key)
       \/ task_save_checksums(key)
       \/ task_set_timestamp(key)
       \/ task_save_timestamps(key)

NextWorkers ==
    \/ mainWorkers
    \/ clean_links
    \/ update_links
    \/ update_links_end
    \/ enter_update_photos
    \/ pool_submit
    \/ task
    \/ pool_result
    \/ pool_loop_end
    \/ pool_shutdown
    \/ Exit
    \/ Tick

SpecWorkers == Init /\ [][NextWorkers]_vars

\* edit, then update --auto-only on the same collections, over a shelf that an earlier
\* update has left: p1 linked to f1 (and p2 to f2), their pictures pushed
\* on day 0
SyncedShelves ==
    {[links |-> [i \in 1..n |-> [k |-> <<"p1", "p2">>[i], v |-> <<"f1", "f2">>[i]]],
      checksums |-> [p \in {<<"p1", "p2">>[i] : i \in 1..n} |-> "h1"],
      timestamps |-> [p \in {<<"p1", "p2">>[i] : i \in 1..n} |-> 0]] : n \in 1..2}

InitSynced ==
    /\ shelf \in SyncedShelves
    /\ contacts = EmptyMap
    /\ friends = EmptyMap
    /\ links = << >>
    /\ checksums = EmptyMap
    /\ timestamps = EmptyMap
    /\ pc = "idle"
    /\ cmd = "none"
    /\ args = NoArgs
    /\ unlinks = << >>
    /\ idx = 0
    /\ target = None
    /\ name = None
    /\ link_contacts = EmptyMap
    /\ future = "none"
    /\ pool = EmptyMap
    /\ now = 0
    /\ runs = 0
    /\ out = << >>
    /\ prev = NoRun
    /\ lastOp = NoOp

mainRelink ==
    IF runs = 0
    THEN \E c \in ContactPools, f \in FriendPools :
            \E a \in ArgsOf("edit") : SinkInit("edit", a, c, f)
    ELSE \E a \in SyncArgs("update") : SinkInit("update", a, prev.contacts, prev.friends)

enterRelink == \E expiry \in 0..MaxExpiry : update_photos_begin(1, expiry)

NextRelink ==
    \/ mainRelink
    \/ clean_links
    \/ update_links
    \/ update_links_end
    \/ get_link
    \/ \E command \in Digits \cup Texts \cup {""} : prompt(command)
    \/ \E input \in ContactNames \cup {""} : edit_links(input)
    \/ enterRelink
    \/ submit
    \/ workerLink
    \/ future_result
    \/ update_photos_end
    \/ ExitKeep
    \/ Tick

SpecRelink == InitSynced /\ [][NextRelink]_vars

(***************************************************************************)
(* The claims.                                                             *)
(***************************************************************************)
Running == pc \notin {"idle", "crashed"}

MutatingOps == {"auto_link", "select", "ignore", "clean", "sync", "delete_links"}

Linked(key) == HasKey(links, key) /\ Get(links, key) # None

Lookup(f, key) == IF key \in DOMAIN f THEN f[key] ELSE None

\* C1: after every mutating operation (auto-link, interactive link or ignore,
\* reconcile, per-record sync, deleteLinks), every contact that has a checksum
\* or a timestamp entry has a link entry, and that link is not None.
C1_ChecksumImpliesLink ==
    lastOp.op \in MutatingOps =>
        \A key \in (DOMAIN checksums) \cup (DOMAIN timestamps) : Linked(key)

\* an entry of the links map m that reconcile has to remove
Dangling(m, key) ==
    \/ key \notin DOMAIN contacts
    \/ m[key] # None /\ m[key] \notin DOMAIN friends

Without(f, gone) == [key \in (DOMAIN f) \ gone |-> f[key]]

\* C2: after reconcile every key of links is a contact and every link that is
\* not None is a friend; exactly the entries that were dangling before are
\* removed, with their checksum and timestamp entries, and every other entry
\* of links, checksums and timestamps is as it was.
C2_ReconcilePrunesExactly ==
    lastOp.op = "clean" =>
        LET gone == {key \in DOMAIN lastOp.pre.l : Dangling(lastOp.pre.l, key)}
        IN  /\ \A key \in Keys(links) :
                  /\ key \in DOMAIN contacts
                  /\ Get(links, key) # None => Get(links, key) \in DOMAIN friends
            /\ AsMap(links) = Without(lastOp.pre.l, gone)
            /\ checksums = Without(lastOp.pre.c, gone)
            /\ timestamps = Without(lastOp.pre.t, gone)

\* reconcile removed a link together with its checksum and its timestamp, and
\* kept another link with its checksum
C2_Witness ==
    /\ lastOp.op = "clean"
    /\ \E key \in DOMAIN lastOp.pre.l :
          /\ ~HasKey(links, key)
          /\ key \in DOMAIN lastOp.pre.c
          /\ key \in DOMAIN lastOp.pre.t
    /\ \E key \in Keys(links) : key \in DOMAIN checksums

\* C3: a links map loaded with a key that is no longer a contact never makes
\* the run fail: the run gets to reconcile, which removes the entry, before
\* any step looks the key up in the contacts.
C3_DriftNeverFails ==
    ~(pc = "crashed" /\ lastOp.op = "init" /\ ~(Keys(links) \subseteq DOMAIN contacts))

\* C4: write-through: while a run goes on, the shelf's copy of links, of
\* checksums and of timestamps equals the map in memory after every operation.
C4_WriteThrough ==
    Running =>
        /\ AsMap(shelf.links) = AsMap(links)
        /\ shelf.checksums = checksums
        /\ shelf.timestamps = timestamps

(***************************************************************************)
(* The per-record sync: what the last _update_photo call read and did.     *)
(***************************************************************************)
\* _update_photo has just run for a contact whose link is not None
SyncedLinked == lastOp.op = "sync" /\ lastOp.pre.l[lastOp.p] # None

OldSum == Lookup(lastOp.pre.c, lastOp.p)

HadStamp == lastOp.p \in DOMAIN lastOp.pre.t

\* the staleness rule, on the clock the call read
NotDue == HadStamp /\ lastOp.at <= lastOp.pre.t[lastOp.p] + args.expiry

Stamped == lastOp.p \in DOMAIN timestamps /\ timestamps[lastOp.p] = lastOp.at

Pushed == \E i \in DOMAIN lastOp.attach : lastOp.attach[i]

\* C5: a due linked record whose friend resolves and whose picture hashes to
\* H, not the stored checksum: if some call of update_photo succeeds the
\* record is reported UPDATED and ends with checksums[p] = H and
\* timestamps[p] = now.
C5_UpdatedRecordsChecksum ==
    ( /\ SyncedLinked
      /\ ~NotDue
      /\ lastOp.resolved = "found"
      /\ lastOp.pic \in Hashes
      /\ lastOp.pic # OldSum
      /\ Pushed )
    => /\ lastOp.res = "UPDATED"
       /\ Lookup(checksums, lastOp.p) = lastOp.pic
       /\ Stamped

\* the push succeeded at the second attempt and replaced an older checksum
C5_Witness ==
    /\ SyncedLinked
    /\ lastOp.res = "UPDATED"
    /\ lastOp.attach = <<FALSE, TRUE>>
    /\ OldSum \in Hashes
    /\ Lookup(checksums, lastOp.p) = lastOp.pic

\* C6: a due linked record whose picture hashes to the stored checksum is
\* reported UNCHANGED, update_photo is not called, checksums[p] stays and
\* timestamps[p] becomes now.
C6_ChecksumDedup ==
    ( /\ SyncedLinked
      /\ ~NotDue
      /\ lastOp.pic \in Hashes
      /\ lastOp.pic = OldSum )
    => /\ lastOp.res = "UNCHANGED"
       /\ lastOp.attach = << >>
       /\ checksums = lastOp.pre.c
       /\ Stamped

\* a record with an older timestamp was fetched again with the same picture
C6_Witness ==
    /\ SyncedLinked
    /\ lastOp.res = "UNCHANGED"
    /\ lastOp.pic = OldSum
    /\ HadStamp
    /\ lastOp.pre.t[lastOp.p] < lastOp.at
    /\ Stamped

\* C7: when update_photo fails at every attempt, the record is reported
\* FAILED, timestamps[p] becomes now and checksums[p] stays as it was (its
\* prior value, or absent).
C7_FailedKeepsChecksum ==
    ( /\ SyncedLinked
      /\ ~NotDue
      /\ lastOp.resolved = "found"
      /\ lastOp.pic \in Hashes
      /\ lastOp.pic # OldSum
      /\ ~Pushed )
    => /\ lastOp.res = "FAILED"
       /\ Stamped
       /\ checksums = lastOp.pre.c

\* two attempts failed for a record that keeps its older checksum
C7_Witness ==
    /\ SyncedLinked
    /\ lastOp.res = "FAILED"
    /\ lastOp.attach = <<FALSE, FALSE>>
    /\ OldSum \in Hashes
    /\ Lookup(checksums, lastOp.p) = OldSum
    /\ Stamped

\* C8: when get_profile_picture reports no picture for a due linked record,
\* the record is reported NO PICTURE, update_photo is not called,
\* checksums[p] stays and timestamps[p] becomes now.
C8_NoArtifactStamped ==
    (SyncedLinked /\ lastOp.pic = None)
    => /\ lastOp.res = "NO PICTURE"
       /\ lastOp.attach = << >>
       /\ checksums = lastOp.pre.c
       /\ Stamped

\* C9: a linked record is skipped exactly when it has a timestamp and
\* now <= timestamp + expiry; a skipped record causes no call to either
\* provider and no change to links, checksums or timestamps.
C9_StalenessRule ==
    SyncedLinked =>
        /\ lastOp.res = "SKIPPED" <=> NotDue
        /\ lastOp.res = "SKIPPED" =>
              /\ lastOp.resolved = NA
              /\ lastOp.pic = NA
              /\ lastOp.attach = << >>
              /\ AsMap(links) = lastOp.pre.l
              /\ checksums = lastOp.pre.c
              /\ timestamps = lastOp.pre.t

\* a record is skipped at exactly the expiry instant
C9_Witness ==
    /\ SyncedLinked
    /\ lastOp.res = "SKIPPED"
    /\ args.expiry > 0
    /\ lastOp.at = lastOp.pre.t[lastOp.p] + args.expiry

(***************************************************************************)
(* Two update runs in a row.                                               *)
(***************************************************************************)
\* the lines the contact key got in this run
LinesOf(key) ==
    LET mine == SelectSeq(out, LAMBDA e : e.p = key)
    IN  [i \in 1..Len(mine) |-> mine[i].line]

\* this run's sync went through all of links, the run before did so too on
\* the same collections and links, and its timestamps have not expired
RepeatedInTime ==
    /\ pc = "done"
    /\ lastOp.op = "sync_end"
    /\ prev.valid
    /\ prev.complete
    /\ prev.contacts = contacts
    /\ prev.friends = friends
    /\ prev.links = AsMap(links)
    /\ prev.args = args
    /\ now <= prev.at + args.expiry

\* C10: when the sync has run to completion and runs again on the same
\* collections and links before the expiry has elapsed, every linked record
\* is reported SKIPPED in the second run.
C10_SecondRunAllSkipped ==
    RepeatedInTime =>
        \A key \in Keys(links) : Get(links, key) # None => LinesOf(key) = <<"SKIPPED">>

(***************************************************************************)
(* The fatal signal of the sync.                                           *)
(***************************************************************************)
FatalLines == SelectSeq(out, LAMBDA e : e.line = "RATE LIMITED")

\* get_user_id has just failed in the task the main thread waits for
Raised == pc = "update_photos" /\ future = "raised"

\* the main thread has taken the signal
Halted == lastOp.op = "fatal"

\* C11: once get_user_id fails for a record during _update_photos, no record
\* that was not yet submitted is submitted, the failing record's checksum and
\* timestamp are as they were, the signal is printed exactly once and
\* _update_photos returns normally, with the checksums and timestamps of the
\* earlier records kept, in memory and in the shelf.
C11_FatalStopsDispatch ==
    [][ /\ (lastOp'.op = "sync" /\ future' = "raised") =>
              /\ checksums' = checksums
              /\ timestamps' = timestamps
              /\ shelf' = shelf
              /\ FatalLines' = << >>
        /\ Raised =>
              /\ Halted'
              /\ pc' = "done"
              /\ Len(FatalLines') = 1
              /\ checksums' = checksums
              /\ timestamps' = timestamps
              /\ shelf' = shelf
        /\ (Raised \/ Halted) => lastOp'.op \notin {"submit", "sync"} ]_vars

\* the signal came for the first of two links, after which the run is over
\* with the second never submitted
C11_Witness ==
    /\ Halted
    /\ pc = "done"
    /\ Len(links) = 2
    /\ lastOp.p = links[1].k
    /\ links[2].v # None
    /\ \A i \in 1..Len(out) : out[i].p # links[2].k

(***************************************************************************)
(* The lines of a sync that went through all of links.                     *)
(***************************************************************************)
OutcomeLines == {"UPDATED", "UNCHANGED", "SKIPPED", "NO PICTURE", "FAILED", "IGNORED"}

SyncComplete == pc = "done" /\ lastOp.op = "sync_end"

\* C12: when _update_photos has gone through all of links without the fatal
\* signal, every key of links, linked or ignored, has exactly one outcome
\* line, one of UPDATED, UNCHANGED, SKIPPED, NO PICTURE, FAILED, IGNORED.
C12_OneLinePerRecord ==
    SyncComplete =>
        \A key \in Keys(links) :
            /\ Len(LinesOf(key)) = 1
            /\ LinesOf(key)[1] \in OutcomeLines

(***************************************************************************)
(* The link phase of update.                                               *)
(***************************************************************************)
Absent == "absent"

\* the entry of key in the links dict d
Entry(d, key) == IF HasKey(d, key) THEN Get(d, key) ELSE Absent

\* the best score any friend's name gets for the query q
BestScore(q) ==
    CHOOSE s \in {Score(q, friends[f]) : f \in DOMAIN friends} :
        \A f \in DOMAIN friends : Score(q, friends[f]) <= s

\* the friends with that score
BestFriends(q) == {f \in DOMAIN friends : Score(q, friends[f]) = BestScore(q)}

MeetsExactly(q) == DOMAIN friends # {} /\ BestScore(q) = args.score_threshold

Queued == {unlinks[i] : i \in 1..Len(unlinks)}

\* _get_link runs for a contact in update
Resolving == cmd = "update" /\ pc \in {"get_link", "prompt"}

\* _update_links has returned
LinksDone == cmd = "update" /\ pc = "update_photos_begin"

\* a contact's link is final: a friend, or None
Terminal(key) == Entry(links, key) = None \/ Entry(links, key) \in DOMAIN friends

Sticky(key) ==
    /\ HasKey(links, key)
    /\ Get(links, key) # None \/ ~args.update_ignored

LinkPhase == cmd = "update" /\ pc \in {"auto", "get_link", "prompt"}

\* _get_link runs for a contact whose entry has to be left alone
StickyTarget == pc \in {"get_link", "prompt"} /\ Sticky(target)

\* C15: without --update-ignored, update runs neither the matcher nor a
\* prompt for a contact whose link is None and leaves that entry as it is,
\* and it never changes a link to a friend that _clean_links left; only with
\* --update-ignored a contact whose link is None is matched or queued again.
C15_IgnoredSticky ==
    [][ LinkPhase =>
          /\ \A key \in Keys(links) : Sticky(key) => Entry(links', key) = Entry(links, key)
          /\ (pc = "auto" /\ lastOp'.op \in {"auto_link", "queued"}) => ~Sticky(lastOp'.p)
          /\ lastOp'.op = "kept" => Sticky(lastOp'.p)
          /\ ~StickyTarget' ]_vars

\* the first loop passed over a contact whose link is None
C15_Witness ==
    /\ cmd = "update"
    /\ lastOp.op = "kept"
    /\ ~args.update_ignored
    /\ Entry(links, lastOp.p) = None

(***************************************************************************)
(* The loop of _get_link.                                                  *)
(***************************************************************************)
InGetLink == pc \in {"get_link", "prompt"}

\* the list the prompt shows
Presented == get_matches(name, args.match_limit)

\* this step ends the _get_link call in progress
LeavesGetLink(nextPc, nextTarget) ==
    InGetLink /\ (nextPc \notin {"get_link", "prompt"} \/ nextTarget # target)

\* C16: _get_link ends only by an index, which links the contact to the
\* friend at that index of the list shown, or by an empty line, which sets
\* its link to None; a name typed at the prompt neither ends the loop nor
\* changes links, except that in update the contact is linked to the top
\* match when the typed name's top score meets the threshold.
C16_LoopEndsBySelectOrEmpty ==
    [][ /\ LeavesGetLink(pc', target') =>
              /\ lastOp'.op \in {"select", "ignore", "auto_link"}
              /\ lastOp'.op = "select" =>
                    /\ lastOp'.input \in Digits
                    /\ ToInt(lastOp'.input) \in 1..Len(Presented)
                    /\ Entry(links', target) = Presented[ToInt(lastOp'.input)].k
              /\ lastOp'.op = "ignore" =>
                    /\ lastOp'.input = ""
                    /\ Entry(links', target) = None
              /\ lastOp'.op = "auto_link" =>
                    /\ cmd = "update"
                    /\ MeetsExactly(name)
                    /\ Entry(links', target) = Presented[1].k
        /\ (InGetLink /\ lastOp'.op = "search") =>
              /\ lastOp'.input \in Texts
              /\ pc' = "get_link"
              /\ target' = target
              /\ links' = links
              /\ shelf' = shelf
        /\ (pc = "get_link" /\ cmd = "update" /\ MeetsExactly(name)) =>
              lastOp'.op = "auto_link" ]_vars

(***************************************************************************)
(* delete.                                                                 *)
(***************************************************************************)
\* C17: _delete_links followed by _clean_links leaves links, checksums and
\* timestamps all empty, whatever they held.
C17_DeleteThenReconcileEmpty ==
    lastOp.op = "delete_links" =>
        /\ Cleaned.l = << >>
        /\ DOMAIN Cleaned.c = {}
        /\ DOMAIN Cleaned.t = {}

\* delete is past _clean_links
Deleting == cmd = "delete" /\ pc \in {"delete_photos", "delete_links"}

\* C18: delete reconciles first, then calls delete_photo, at most retries
\* times each, for every contact whose link is not None after _clean_links
\* and for no other (not for an ignored contact); it changes no checksum and
\* no timestamp, and clears links only with --delete-links.
C18_DeleteOnlyLinked ==
    [][ /\ (cmd' = "delete" /\ lastOp'.op = "delete_photo") => Deleting
        /\ Deleting =>
              /\ lastOp'.op = "delete_photo" =>
                    /\ lastOp'.p = links[idx].k
                    /\ Entry(links, lastOp'.p) \in DOMAIN friends
                    /\ Len(lastOp'.attach) <= args.retries
              /\ (pc = "delete_photos" /\ idx <= Len(links) /\ links[idx].v # None) =>
                    lastOp'.op = "delete_photo"
              /\ checksums' = checksums
              /\ timestamps' = timestamps
              /\ shelf'.checksums = shelf.checksums
              /\ shelf'.timestamps = shelf.timestamps
              /\ links' # links => args.delete_links /\ links' = << >>
              /\ (pc' = "done" /\ args.delete_links) => links' = << >> /\ shelf'.links = << >> ]_vars

(***************************************************************************)
(* _clean_links applied twice.                                             *)
(***************************************************************************)
\* C20: _clean_links is idempotent: applied to the maps it has just
\* returned, with the same contacts and friends, it changes nothing.
C20_ReconcileIdempotent ==
    lastOp.op = "clean" =>
        /\ Cleaned.l = links
        /\ Cleaned.c = checksums
        /\ Cleaned.t = timestamps

\* _clean_links removed two links and their timestamps
C20_Witness ==
    /\ lastOp.op = "clean"
    /\ Cardinality(DOMAIN lastOp.pre.l) = 2
    /\ Cardinality(DOMAIN lastOp.pre.t) = 2
    /\ links = << >>
    /\ DOMAIN timestamps = {}

(***************************************************************************)
(* The tasks of the sync, in any interleaving.                             *)
(***************************************************************************)
\* the tasks inside _set_checksum, and those inside _set_timestamp
InChecksums == {key \in DOMAIN pool : pool[key].st \in {"set_checksum", "save_checksums"}}

InTimestamps == {key \in DOMAIN pool : pool[key].st \in {"set_timestamp", "save_timestamps"}}

\* the map m, in memory or in the shelf, holds what the task of key stored
Holds(m, key, val) == key \in DOMAIN m /\ m[key] = val

\* C19: in _update_photos, however the tasks' threads are scheduled, at most
\* one task at a time is inside _set_checksum and at most one inside
\* _set_timestamp, and no task's write is lost: when _update_photos has
\* returned, every record a task processed has the checksum and the
\* timestamp that task stored, in memory and in the shelf.
C19_OneWriterPerCategory ==
    /\ Cardinality(InChecksums) <= 1
    /\ Cardinality(InTimestamps) <= 1
    /\ pc = "done" =>
          \A key \in DOMAIN pool :
              /\ pool[key].sum # None =>
                    /\ Holds(checksums, key, pool[key].sum)
                    /\ Holds(shelf.checksums, key, pool[key].sum)
              /\ pool[key].stamp # NoStamp =>
                    /\ Holds(timestamps, key, pool[key].stamp)
                    /\ Holds(shelf.timestamps, key, pool[key].stamp)

\* two tasks have stored a checksum and a timestamp each
C19_Witness ==
    /\ pc = "done"
    /\ Cardinality(DOMAIN pool) = 2
    /\ \A key \in DOMAIN pool :
          /\ pool[key].sum \in Hashes
          /\ pool[key].stamp # NoStamp
          /\ Holds(shelf.checksums, key, pool[key].sum)

(***************************************************************************)
(* The prompt of _get_link in edit.                                        *)
(***************************************************************************)
\* the user has typed a name at the prompt and _get_link is back at the top
\* of its loop with it
Searched == pc = "get_link" /\ lastOp.op = "search"

\* C21: in edit, when the user types a name at the prompt and the top match
\* for that name meets the threshold (here: equals it, the test the code
\* uses), the contact is linked to that top match at once, with no index
\* typed.
C21_EditSearchAutoLinks ==
    [][ (cmd = "edit" /\ Searched /\ MeetsExactly(name)) =>
          /\ lastOp'.op = "auto_link"
          /\ Entry(links', target) = Presented[1].k ]_vars

\* the number typed is an index of the list shown
ValidIndex(command) == command \in Digits /\ ToInt(command) \in 1..Len(Presented)

\* C22: every number the prompt of _get_link accepts is a 1-based index of
\* the list shown, and the link made is to the friend at that index; a
\* number that is no index of the list (0, or more than the matches shown,
\* also when fewer than match_limit came back) is asked again: it neither
\* ends the loop, nor fails, nor makes a link.
C22_NumberIsPresentedIndex ==
    [][ (pc = "prompt" /\ lastOp'.input \in Digits) =>
          IF ValidIndex(lastOp'.input)
          THEN /\ lastOp'.op = "select"
               /\ Entry(links', target) = Presented[ToInt(lastOp'.input)].k
          ELSE /\ lastOp'.op = "reask"
               /\ pc' = "prompt"
               /\ target' = target
               /\ links' = links
               /\ shelf' = shelf ]_vars

\* _retry has just run: for update_photo of a changed picture, or for
\* delete_photo
Retried ==
    \/ lastOp.op = "sync" /\ lastOp.res \in {"UPDATED", "FAILED"}
    \/ lastOp.op = "delete_photo"

RetrySaidTrue == lastOp.res \in {"UPDATED", "SUCCESS"}

\* C23: _retry calls the operation at most `retries` times, stops at the
\* first attempt that succeeds (every call before the last one made has
\* failed), answers true exactly when some attempt succeeded, makes no call
\* and answers false when retries is 0, and lets no failure of the operation
\* out: the caller goes on with the answer.
C23_RetryBounded ==
    Retried =>
       /\ Len(lastOp.attach) <= args.retries
       /\ \A i \in 1..Len(lastOp.attach) :
             lastOp.attach[i] => i = Len(lastOp.attach)
       /\ RetrySaidTrue <=> (\E i \in 1..Len(lastOp.attach) : lastOp.attach[i])
       /\ ~RetrySaidTrue => Len(lastOp.attach) = args.retries
       /\ args.retries = 0 => (lastOp.attach = << >> /\ ~RetrySaidTrue)
       /\ pc # "crashed"
       /\ lastOp.op = "sync" => future = "returned"

\* the second of two attempts succeeded and no third call was made
C23_Witness ==
    /\ Retried
    /\ args.retries = MaxRetries
    /\ MaxRetries >= 2
    /\ Len(lastOp.attach) = MaxRetries
    /\ \A i \in 1..(MaxRetries - 1) : ~lastOp.attach[i]
    /\ lastOp.attach[MaxRetries]
    /\ RetrySaidTrue

LinkOps == {"auto_link", "select", "ignore"}

\* a step of _add_link, from the first loop of _update_links or from
\* _get_link
LinkStep == pc \in {"auto", "get_link", "prompt"} /\ lastOp'.op \in LinkOps

\* _update_photo is about to run for a linked record that has a timestamp
StampedSyncStep ==
    /\ pc = "update_photos"
    /\ lastOp'.op = "sync"
    /\ Linked(lastOp'.p)
    /\ lastOp'.p \in DOMAIN timestamps

\* C24: making or changing a link (auto-link, index typed, ignore) changes
\* links[p] of that one record and the persisted links, and leaves every
\* other link, checksums and timestamps as they were, in memory and on the
\* shelf; so a record that keeps a timestamp, re-linked or not, is reported
\* SKIPPED by the next update exactly until the expiry has passed, and an
\* ignored record keeps its checksum and timestamp entries.
C24_LinkFrame ==
    [][ /\ LinkStep =>
             /\ checksums' = checksums
             /\ timestamps' = timestamps
             /\ shelf'.checksums = shelf.checksums
             /\ shelf'.timestamps = shelf.timestamps
             /\ Entry(links', lastOp'.p) # Absent
             /\ lastOp'.op = "ignore" <=> Entry(links', lastOp'.p) = None
             /\ \A q \in PIDs \ {lastOp'.p} : Entry(links', q) = Entry(links, q)
             /\ shelf'.links = shelf.links \/ shelf'.links = links'
             /\ pc' # "crashed" => shelf'.links = links'
        /\ StampedSyncStep =>
             /\ lastOp'.res = "SKIPPED"
                   <=> now <= timestamps[lastOp'.p] + args.expiry
             /\ lastOp'.res = "SKIPPED" =>
                   /\ UNCHANGED <<links, checksums, timestamps, shelf>>  ]_vars

\* p1, linked to f1 and stamped on day 0, came out of edit linked to f2 with
\* its checksum and timestamp, and the update after it reports it SKIPPED
C24_Witness ==
    /\ runs = 2
    /\ cmd = "update"
    /\ prev.valid
    /\ "p1" \in DOMAIN prev.links
    /\ prev.links["p1"] = "f2"
    /\ lastOp.op = "sync"
    /\ lastOp.p = "p1"
    /\ lastOp.res = "SKIPPED"
    /\ Entry(links, "p1") = "f2"
    /\ Lookup(timestamps, "p1") = 0
    /\ Lookup(checksums, "p1") = "h1"

====
